---- MODULE Spec2Model ----
(***************************************************************************)
(* Khuli-kitab RAG backend: session chat history with a sliding-window     *)
(* rate limiter (backend/rag/chat_manager.py), the /query, history and     *)
(* clear endpoints (backend/app.py), chunk identity assignment             *)
(* (backend/rag/document_processor.py), the ingestion endpoints with the   *)
(* Drive client (backend/app.py, backend/rag/drive_client.py) and the      *)
(* retrieval chain (backend/rag/chain.py).                                 *)
(*                                                                         *)
(* The history store is the MongoDB collection `chats`: an unordered bag   *)
(* of documents.  The server is one asyncio event loop: a handler runs     *)
(* atomically between two `await`s, so every action of a handler is one    *)
(* awaited store operation together with the handler code that follows it  *)
(* up to the next `await`; a message's timestamp is the time of its        *)
(* insert.  The clock never runs backwards and the store is reachable (no  *)
(* StorageError).  The rate limit, the window and the history page keep    *)
(* the code's parameters, scaled down.                                     *)
(***************************************************************************)
EXTENDS Bags, FiniteSets, Integers, Sequences, TLC

\* ---------------------------------------------------------------- bounds
\* The code's defaults are limit = 25 messages, window_hours = 1 and a
\* history page of 50; the model keeps them as parameters and scales them.
RateLimit == 1
\* clock ticks in one hour
TicksPerHour == 1
HistoryLimit == 2
\* the clock runs over 0..MaxTime
MaxTime == 2
\* /query requests accepted over a run
MaxQueries == 3

\* documents handed to one split_documents call
MaxDocuments == 3
\* split_documents calls on the one DocumentProcessor of the application
MaxCalls == 2

Sessions == {"s1", "s2"}
Questions == {"q1"}
Answers == {"a1"}
\* concurrent /query handlers (coroutines on the event loop)
Req == {1, 2}

\* check_rate_limit(..., window_hours: int = 1)
DefaultWindowHours == 1

\* the assistant text of a denied request, app.py:424
RedirectText == "You have exceeded the rate limit. Please provide your email id, linkedin profile or any other contact, or get in touch with me on linkedin : https://www.linkedin.com/in/akshat-jain-571435139/ , mail : akshatbjain.aj@gmail.com , contact: +91 9425919685 so we can take this discussion ahead"

NoValue == "-"

VARIABLES
    now,        \* datetime.utcnow(), in ticks
    chats,      \* the collection self.db.chats, a bag of message documents
    req,        \* per /query handler: its position and locals
    started,    \* number of /query requests accepted so far
    admitted,   \* history: [session_id, timestamp] of stored user messages of allowed requests
    last        \* history: the last call of an endpoint or of the clock, with its result

chatVars == <<now, chats, req, started, admitted, last>>

VARIABLES
    chunks,           \* the local chunks of the running split_documents call;
                      \* their metadata is updated in place
    source_counters,  \* its local source_counters
    idx,              \* the position of its loop in chunks
    split_pc,         \* "idle", "loop" or "returned"
    calls,            \* split_documents calls made so far
    earlier_sources,  \* history: the sources numbered by the calls that returned
    earlier_hashes    \* history: [text, hash] of the chunks those calls returned

splitVars ==
    <<chunks, source_counters, idx, split_pc, calls, earlier_sources, earlier_hashes>>

VARIABLES
    fs,         \* the paths that exist under Config.UPLOAD_FOLDER
    ing,        \* the running ingestion request: its position and locals
    report      \* the response of the ingestion request that ended last, with
                \* the history of that request

ingestVars == <<fs, ing, report>>

VARIABLES
    store,      \* the vector store: its chunks, most relevant first
    rag_chain,  \* the RAGChain object: self.retriever and self._chain
    rag,        \* the running query_with_sources call: its position and locals
    answered    \* history: what the RAG call that returned last used and returned

chainVars == <<store, rag_chain, rag, answered>>

\* ------------------------------------------------------------ the store

Min(a, b) == IF a <= b THEN a ELSE b

\* message = {...}, chat_manager.py:16-21
Message(session_id, role, content, timestamp) ==
    [session_id |-> session_id, role |-> role, content |-> content,
     timestamp |-> timestamp]

\* Collection.insert_one
insert_one(coll, doc) == coll (+) SetToBag({doc})

\* the documents of a collection that a filter matches (the set matching),
\* with their multiplicity
Matching(coll, matching) == [d \in matching \cap BagToSet(coll) |-> coll[d]]

\* Collection.count_documents
count_documents(coll, matching) == BagCardinality(Matching(coll, matching))

\* Collection.delete_many: what stays
delete_many(coll, matching) == Matching(coll, BagToSet(coll) \ matching)

\* cursor.sort("timestamp", 1): every order the server may return, documents
\* of equal timestamp in any order
RECURSIVE SortByTimestamp(_)
SortByTimestamp(coll) ==
    IF BagToSet(coll) = {} THEN {<<>>}
    ELSE LET docs == BagToSet(coll)
             first == {d \in docs : \A e \in docs : d.timestamp <= e.timestamp}
         IN  UNION {{<<d>> \o rest : rest \in SortByTimestamp(coll (-) SetToBag({d}))}
                    : d \in first}

\* cursor.limit(n)
Limit(cursor, n) == SubSeq(cursor, 1, Min(n, Len(cursor)))

\* datetime.isoformat()
isoformat(timestamp) == <<"iso", timestamp>>

\* ---------------------------------------------------------- ChatManager

OfSession(coll, session_id) ==
    Matching(coll, {d \in BagToSet(coll) : d.session_id = session_id})

\* ChatManager.save_message at time t: the collection afterwards
save_message(coll, session_id, role, content, t) ==
    insert_one(coll, Message(session_id, role, content, t))

\* mutant of HistoryCursors: the page is cut before the sort is applied
HistoryCursors_limitBeforeSort(coll, session_id, limit) ==
    UNION {SortByTimestamp(part) :
             part \in {b \in SubBag(OfSession(coll, session_id)) :
                          BagCardinality(b) =
                              Min(limit, BagCardinality(OfSession(coll, session_id)))}}

\* the documents the cursor of get_history may yield, chat_manager.py:26
HistoryCursors(coll, session_id, limit) ==
    {Limit(c, limit) : c \in SortByTimestamp(OfSession(coll, session_id))}

\* the entry get_history builds from a document, chat_manager.py:29-33
HistoryEntry(doc) ==
    [role |-> doc.role, content |-> doc.content, timestamp |-> isoformat(doc.timestamp)]

\* ChatManager.get_history on the documents its cursor yields
get_history(cursor) == [i \in 1..Len(cursor) |-> HistoryEntry(cursor[i])]

\* mutant of clear_history: the filter is left out, delete_many({})
clear_history_noFilter(coll, session_id) == EmptyBag

\* mutant of clear_history: only the questions are deleted
clear_history_userOnly(coll, session_id) ==
    delete_many(coll, {d \in BagToSet(coll) : d.session_id = session_id /\ d.role = "user"})

\* mutant of clear_history: only the answers are deleted
clear_history_assistantOnly(coll, session_id) ==
    delete_many(coll, {d \in BagToSet(coll) :
                          d.session_id = session_id /\ d.role = "assistant"})

\* ChatManager.clear_history: the collection afterwards
clear_history(coll, session_id) ==
    delete_many(coll, {d \in BagToSet(coll) : d.session_id = session_id})

timedelta(hours) == hours * TicksPerHour

\* mutant of check_rate_limit: the role is left out of the filter
check_rate_limit_anyRole(coll, session_id, limit, window_hours, t) ==
    count_documents(coll, {d \in BagToSet(coll) :
        /\ d.session_id = session_id
        /\ d.timestamp >= t - timedelta(window_hours)}) < limit

\* mutant of check_rate_limit: "$gt" for "$gte"
check_rate_limit_exclusiveCutoff(coll, session_id, limit, window_hours, t) ==
    count_documents(coll, {d \in BagToSet(coll) :
        /\ d.session_id = session_id
        /\ d.role = "user"
        /\ d.timestamp > t - timedelta(window_hours)}) < limit

\* mutant of check_rate_limit: count <= limit
check_rate_limit_offByOne(coll, session_id, limit, window_hours, t) ==
    count_documents(coll, {d \in BagToSet(coll) :
        /\ d.session_id = session_id
        /\ d.role = "user"
        /\ d.timestamp >= t - timedelta(window_hours)}) <= limit

\* mutant of check_rate_limit: the cutoff is the time of the check
check_rate_limit_cutoffNow(coll, session_id, limit, window_hours, t) ==
    count_documents(coll, {d \in BagToSet(coll) :
        /\ d.session_id = session_id
        /\ d.role = "user"
        /\ d.timestamp >= t}) < limit

\* ChatManager.check_rate_limit at time t
check_rate_limit(coll, session_id, limit, window_hours, t) ==
    LET cutoff == t - timedelta(window_hours)
        count == count_documents(coll, {d \in BagToSet(coll) :
                     /\ d.session_id = session_id
                     /\ d.role = "user"
                     /\ d.timestamp >= cutoff})
    IN  count < limit

\* ------------------------------------------------------------- /query

\* a handler that is not running
Idle ==
    [pc |-> "idle", session_id |-> NoValue, question |-> NoValue,
     is_allowed |-> FALSE, log |-> <<>>]

\* no call has just returned
NoCall ==
    [op |-> "none", session_id |-> NoValue, is_allowed |-> FALSE, log |-> <<>>,
     returned |-> "none", status |-> 0, body |-> NoValue,
     cursor |-> <<>>, result |-> <<>>, deleted |-> 0]

\* response_model=QueryResponse (answer: str is required): FastAPI validates
\* what the handler returned; a value that is no QueryResponse is answered
\* with status 500
Serialize(kind, answer) ==
    IF kind = "dict" THEN [status |-> 200, body |-> answer]
    ELSE [status |-> 500, body |-> "ResponseValidationError"]

\* the handler r ends: what it returned or raised, and the response sent
QueryEnds(r, kind, status, body, step) ==
    /\ last' = [NoCall EXCEPT !.op = "query", !.session_id = req[r].session_id,
                              !.is_allowed = req[r].is_allowed,
                              !.log = req[r].log \o step,
                              !.returned = kind, !.status = status, !.body = body]
    /\ req' = [req EXCEPT ![r] = Idle]

\* a request arrives, is given the first free handler, and the handler awaits
\* check_rate_limit, app.py:421
QueryCheck(r) ==
    /\ req[r].pc = "idle"
    /\ \A o \in Req : o < r => req[o].pc # "idle"
    /\ started < MaxQueries
    /\ \E s \in Sessions, q \in Questions :
         LET is_allowed == check_rate_limit(chats, s, RateLimit, DefaultWindowHours, now)
         IN  /\ req' = [req EXCEPT ![r] =
                          [Idle EXCEPT !.pc = "checked", !.session_id = s,
                                       !.question = q, !.is_allowed = is_allowed,
                                       !.log = <<"check">>]]
             /\ last' = [NoCall EXCEPT !.op = "check_rate_limit", !.session_id = s,
                                       !.is_allowed = is_allowed]
    /\ started' = started + 1
    /\ UNCHANGED <<now, chats, admitted>>
    /\ UNCHANGED <<splitVars, ingestVars, chainVars>>

\* a request arrives while no other request of its session is being
\* handled: the requests of one session come strictly one after another
QueryCheckSequential(r) ==
    /\ QueryCheck(r)
    /\ \A o \in Req \ {r} :
          req[o].pc # "idle" => req[o].session_id # req'[r].session_id

\* mutant of AuditedQuestion: a denied question is not recorded
AuditedQuestion_allowedOnly(r) ==
    IF req[r].is_allowed
    THEN save_message(chats, req[r].session_id, "user", req[r].question, now)
    ELSE chats

\* the collection once the question of handler r is saved, on either path:
\* app.py:423 and app.py:427
AuditedQuestion(r) ==
    save_message(chats, req[r].session_id, "user", req[r].question, now)

\* the insert of the user message completes, app.py:423 (denied) or
\* app.py:427 (allowed).  Denied, the handler then returns the coroutine
\* save_message(...) of app.py:424 without awaiting it: the assistant message
\* is never inserted, and what the handler returned is no QueryResponse.
QuerySaveUser(r) ==
    /\ req[r].pc = "checked"
    /\ chats' = AuditedQuestion(r)
    /\ IF req[r].is_allowed
       THEN /\ req' = [req EXCEPT ![r].pc = "saved", ![r].log = Append(@, "save_user")]
            /\ admitted' = admitted (+) SetToBag({<<req[r].session_id, now>>})
            /\ last' = NoCall
       ELSE /\ LET resp == Serialize("coroutine", NoValue)
               IN  QueryEnds(r, "coroutine", resp.status, resp.body,
                             <<"save_user", "return">>)
            /\ admitted' = admitted
    /\ UNCHANGED <<now, started>>
    /\ UNCHANGED <<splitVars, ingestVars, chainVars>>

\* mutant of QueryAnswer: a failed generation takes the question back out of
\* the history
QueryAnswer_rollsBack(r) ==
    /\ req[r].pc = "saved"
    /\ \E method \in {"query", "query_with_sources"} :
           \/ \E a \in Answers :
                 /\ chats' = save_message(chats, req[r].session_id, "assistant", a, now)
                 /\ LET resp == Serialize("dict", a)
                    IN  QueryEnds(r, "dict", resp.status, resp.body,
                                  <<method, "save_assistant", "return">>)
           \/ /\ QueryEnds(r, "raise", 500, "GenerationError", <<method>>)
              /\ chats' = delete_many(chats, {d \in BagToSet(chats) :
                                                /\ d.session_id = req[r].session_id
                                                /\ d.role = "user"
                                                /\ d.content = req[r].question})
    /\ UNCHANGED <<now, started, admitted>>
    /\ UNCHANGED <<splitVars, ingestVars, chainVars>>

\* rag_chain.query / query_with_sources has run, the insert of the assistant
\* message completes and the answer is returned, app.py:429-447; an
\* exception of the chain is answered with HTTPException(500), app.py:449-451
QueryAnswer(r) ==
    /\ req[r].pc = "saved"
    /\ \E method \in {"query", "query_with_sources"} :
           \/ \E a \in Answers :
                 /\ chats' = save_message(chats, req[r].session_id, "assistant", a, now)
                 /\ LET resp == Serialize("dict", a)
                    IN  QueryEnds(r, "dict", resp.status, resp.body,
                                  <<method, "save_assistant", "return">>)
           \/ /\ QueryEnds(r, "raise", 500, "GenerationError", <<method>>)
              /\ chats' = chats
    /\ UNCHANGED <<now, started, admitted>>
    /\ UNCHANGED <<splitVars, ingestVars, chainVars>>

\* ------------------------------------------------ the history endpoints

\* GET /chat/history/{session_id}, app.py:453-463
GetHistory(s) ==
    /\ \E c \in HistoryCursors(chats, s, HistoryLimit) :
         last' = [NoCall EXCEPT !.op = "get_history", !.session_id = s,
                                !.cursor = c, !.result = get_history(c),
                                !.status = 200]
    /\ UNCHANGED <<now, chats, req, started, admitted>>
    /\ UNCHANGED <<splitVars, ingestVars, chainVars>>

\* DELETE /chat/history/{session_id}, app.py:465-475
ClearHistory(s) ==
    /\ chats' = clear_history(chats, s)
    /\ admitted' = Matching(admitted, {a \in BagToSet(admitted) : a[1] # s})
    /\ last' = [NoCall EXCEPT !.op = "clear_history", !.session_id = s,
                              !.deleted = BagCardinality(OfSession(chats, s)),
                              !.status = 200, !.body = "Chat history cleared"]
    /\ UNCHANGED <<now, req, started>>
    /\ UNCHANGED <<splitVars, ingestVars, chainVars>>

\* time passes
Tick ==
    /\ now < MaxTime
    /\ now' = now + 1
    /\ last' = NoCall
    /\ UNCHANGED <<chats, req, started, admitted>>
    /\ UNCHANGED <<splitVars, ingestVars, chainVars>>

\* --------------------------------------------------- DocumentProcessor

\* A source is a path, the sequence of its components; a text is the
\* sequence of the pieces the text splitter cuts it into.
SourceA == <<"a", "f.pdf">>
SourceB == <<"b", "f.pdf">>
Metadatas ==
    {[source |-> SourceA], [source |-> SourceA, page |-> 1],
     [source |-> SourceB, page |-> 1], [page_number |-> 2], [title |-> "t"]}
Texts == {<<>>, <<"x">>, <<"x", "y">>}
Documents == [metadata : Metadatas, page_content : Texts]

RECURSIVE SeqsUpTo(_, _)
SeqsUpTo(S, n) ==
    IF n = 0 THEN {<<>>}
    ELSE LET shorter == SeqsUpTo(S, n - 1)
         IN  shorter \cup {Append(q, x) : q \in {r \in shorter : Len(r) = n - 1}, x \in S}

\* dict.get(key, default)
Get(metadata, key, default) == IF key \in DOMAIN metadata THEN metadata[key] ELSE default

\* self.text_splitter.split_documents: for every document in order, one
\* chunk per piece of its text, each with a copy of the document's metadata
RECURSIVE TextSplit(_)
TextSplit(docs) ==
    IF docs = <<>> THEN <<>>
    ELSE [i \in 1..Len(Head(docs).page_content) |->
             [metadata |-> Head(docs).metadata,
              page_content |-> Head(docs).page_content[i]]]
         \o TextSplit(Tail(docs))

\* chunk.metadata.get("source", "unknown"), document_processor.py:129
SourceOf(chunk) == Get(chunk.metadata, "source", <<"unknown">>)

\* document_processor.py:131
PageOf(chunk) == Get(chunk.metadata, "page", Get(chunk.metadata, "page_number", 0))

\* os.path.basename(str(source))
basename(source) == source[Len(source)]

\* f"{source_name}:{page}:{chunk_number}", document_processor.py:143
ChunkId(source_name, page, chunk_number) ==
    source_name \o ":" \o ToString(page) \o ":" \o ToString(chunk_number)

\* hashlib.md5(text.encode("utf-8")).hexdigest(): a digest of the text alone
md5(text) == "md5(" \o text \o ")"

\* mutant of CounterKey: one counter per file name, not per source
CounterKey_basename(chunk) == <<basename(SourceOf(chunk))>>

\* the key of a chunk's counter in source_counters, document_processor.py:134-138
CounterKey(chunk) == SourceOf(chunk)

\* mutant of Counted: the counter of a source that an earlier call numbered
\* is not started again at zero
Counted_resumed(counters, chunk) ==
    LET key == CounterKey(chunk)
        zeroed == IF key \in DOMAIN counters THEN counters
                  ELSE [k \in DOMAIN counters \cup {key} |->
                           IF k = key THEN (IF key \in earlier_sources THEN 1 ELSE 0)
                           ELSE counters[k]]
    IN  [zeroed EXCEPT ![key] = @ + 1]

\* document_processor.py:134-138: the counters after this chunk is counted
Counted(counters, chunk) ==
    LET key == CounterKey(chunk)
        zeroed == IF key \in DOMAIN counters THEN counters
                  ELSE [k \in DOMAIN counters \cup {key} |->
                           IF k = key THEN 0 ELSE counters[k]]
    IN  [zeroed EXCEPT ![key] = @ + 1]

\* mutant of Identified: the page is hashed together with the text
Identified_hashWithPage(chunk, chunk_number) ==
    LET chunk_id == ChunkId(basename(SourceOf(chunk)), PageOf(chunk), chunk_number)
        content_hash == md5(ToString(PageOf(chunk)) \o chunk.page_content)
        keys == DOMAIN chunk.metadata \cup {"id", "hash"}
    IN  [chunk EXCEPT !.metadata =
            [k \in keys |-> IF k = "id" THEN chunk_id
                            ELSE IF k = "hash" THEN content_hash
                            ELSE chunk.metadata[k]]]

\* document_processor.py:140-150: the chunk with id and hash in its metadata
Identified(chunk, chunk_number) ==
    LET chunk_id == ChunkId(basename(SourceOf(chunk)), PageOf(chunk), chunk_number)
        content_hash == md5(chunk.page_content)
        keys == DOMAIN chunk.metadata \cup {"id", "hash"}
    IN  [chunk EXCEPT !.metadata =
            [k \in keys |-> IF k = "id" THEN chunk_id
                            ELSE IF k = "hash" THEN content_hash
                            ELSE chunk.metadata[k]]]

NoCounters == [k \in {} |-> 0]

\* source_counters = {} and the loop of document_processor.py:126-152 as a
\* function: the chunks returned for the chunks split, from given counters
RECURSIVE IdentifyFrom(_, _)
IdentifyFrom(split, counters) ==
    IF split = <<>> THEN <<>>
    ELSE LET counted == Counted(counters, Head(split))
         IN  <<Identified(Head(split), counted[CounterKey(Head(split))])>>
                 \o IdentifyFrom(Tail(split), counted)

\* split_documents(documents) is called, document_processor.py:123-126
SplitCall ==
    /\ split_pc = "idle"
    /\ calls < MaxCalls
    /\ \E documents \in SeqsUpTo(Documents, MaxDocuments) :
          chunks' = TextSplit(documents)
    /\ source_counters' = NoCounters
    /\ idx' = 1
    /\ split_pc' = "loop"
    /\ calls' = calls + 1
    /\ UNCHANGED <<earlier_sources, earlier_hashes>>
    /\ UNCHANGED <<chatVars, ingestVars, chainVars>>

\* one pass of the loop, document_processor.py:128-150
SplitLoop ==
    /\ split_pc = "loop"
    /\ idx <= Len(chunks)
    /\ LET counters == Counted(source_counters, chunks[idx])
       IN  /\ source_counters' = counters
           /\ chunks' = [chunks EXCEPT
                            ![idx] = Identified(@, counters[CounterKey(chunks[idx])])]
    /\ idx' = idx + 1
    /\ UNCHANGED <<split_pc, calls, earlier_sources, earlier_hashes>>
    /\ UNCHANGED <<chatVars, ingestVars, chainVars>>

\* return chunks, document_processor.py:152
SplitReturn ==
    /\ split_pc = "loop"
    /\ idx > Len(chunks)
    /\ split_pc' = "returned"
    /\ UNCHANGED <<chunks, source_counters, idx, calls, earlier_sources, earlier_hashes>>
    /\ UNCHANGED <<chatVars, ingestVars, chainVars>>

\* the caller is done with the chunks it was returned (app.py:195-207)
SplitDone ==
    /\ split_pc = "returned"
    /\ earlier_sources' =
          earlier_sources \cup {SourceOf(chunks[i]) : i \in 1..Len(chunks)}
    /\ earlier_hashes' =
          earlier_hashes \cup {<<chunks[i].page_content, chunks[i].metadata["hash"]>>
                                  : i \in 1..Len(chunks)}
    /\ chunks' = <<>>
    /\ source_counters' = NoCounters
    /\ idx' = 1
    /\ split_pc' = "idle"
    /\ UNCHANGED calls
    /\ UNCHANGED <<chatVars, ingestVars, chainVars>>

\* ------------------------------------------------------------ ingestion
\* The ingestion handlers of app.py call the Drive client, the document
\* processor and the vector store synchronously: a handler runs from its
\* first line to its response without another handler in between.  Its
\* steps are separate actions only to show the file system in between.

\* files of a Drive folder
MaxFiles == 2
\* chunks process_file makes of one file
MaxChunks == 2

\* document_ids slices: ids[:5] app.py:210, ids[:10] app.py:266 and 397,
\* all_ids[:20] app.py:338
UploadIdsShown == 5
DirectoryIdsShown == 10
DriveIdsShown == 20
DriveFileIdsShown == 10

PdfType == "application/pdf"
GoogleDocType == "application/vnd.google-apps.document"
WordType == "application/vnd.openxmlformats-officedocument.wordprocessingml.document"
SheetType == "application/vnd.google-apps.spreadsheet"

\* the files Google Drive may hold: {id, name, mimeType}
DriveFiles ==
    {[id |-> "f1", name |-> "a.pdf", mimeType |-> PdfType],
     [id |-> "f2", name |-> "my notes", mimeType |-> GoogleDocType],
     [id |-> "f3", name |-> "c.docx", mimeType |-> WordType],
     [id |-> "f4", name |-> "d", mimeType |-> SheetType]}

\* the contents of a Drive folder, in the order Drive lists them
Folders ==
    {f \in SeqsUpTo(DriveFiles, MaxFiles) :
        \A i, j \in 1..Len(f) : i # j => f[i].id # f[j].id}

FolderId == "F"

\* file names of uploads
UploadNames == {"", "notes.txt", "my cv.PDF", "run.exe"}

\* Config.ALLOWED_EXTENSIONS, config.py:54
ALLOWED_EXTENSIONS == {"pdf", "txt", "docx", "md"}

\* the keys of DocumentProcessor.LOADER_MAPPING in their order,
\* document_processor.py:27-32
LOADER_MAPPING == <<".pdf", ".txt", ".md", ".docx">>

\* Config.UPLOAD_FOLDER
UPLOAD_FOLDER == "uploads"

Range(seq) == {seq[i] : i \in 1..Len(seq)}

\* sub in s (str.__contains__)
Contains(s, sub) ==
    \E i \in 1..(Len(s) - Len(sub) + 1) : SubSeq(s, i, i + Len(sub) - 1) = sub

StartsWith(s, prefix) ==
    Len(prefix) <= Len(s) /\ SubSeq(s, 1, Len(prefix)) = prefix

\* str.endswith
EndsWith(s, suffix) ==
    Len(suffix) <= Len(s) /\ SubSeq(s, Len(s) - Len(suffix) + 1, Len(s)) = suffix

\* seq[:n]
Slice(seq, n) == SubSeq(seq, 1, Min(n, Len(seq)))

\* os.path.join
join(dir, name) == dir \o "/" \o name

\* os.remove: the paths that exist afterwards
remove(paths, path) == paths \ {path}

\* shutil.rmtree: the paths that exist afterwards
rmtree(paths, dir) == {p \in paths : p # dir /\ ~StartsWith(p, dir \o "/")}

\* str.lower, on the letters the file names here are written with
LowerChar(c) ==
    CASE c = "P" -> "p" [] c = "D" -> "d" [] c = "F" -> "f" [] OTHER -> c

RECURSIVE lower(_)
lower(s) ==
    IF s = "" THEN ""
    ELSE LowerChar(SubSeq(s, 1, 1)) \o lower(SubSeq(s, 2, Len(s)))

\* werkzeug's secure_filename, on names of letters, digits, dots and spaces:
\* a space becomes an underscore
RECURSIVE secure_filename(_)
secure_filename(name) ==
    IF name = "" THEN ""
    ELSE (IF SubSeq(name, 1, 1) = " " THEN "_" ELSE SubSeq(name, 1, 1))
             \o secure_filename(SubSeq(name, 2, Len(name)))

\* filename.rsplit(".", 1)[1], for a name with a dot
AfterLastDot(name) ==
    LET dot == CHOOSE i \in 1..Len(name) :
                   /\ SubSeq(name, i, i) = "."
                   /\ \A j \in (i + 1)..Len(name) : SubSeq(name, j, j) # "."
    IN  SubSeq(name, dot + 1, Len(name))

\* allowed_file, app.py:148-150
allowed_file(filename) ==
    Contains(filename, ".") /\ lower(AfterLastDot(filename)) \in ALLOWED_EXTENSIONS

\* GoogleDriveClient.extract_id_from_url on a plain id shorter than 25
\* characters: no pattern matches, the input is returned, drive_client.py:151
extract_id_from_url(input_str) == input_str

\* the files the query of list_files_in_folder selects, drive_client.py:108
InListQuery(file) == file.mimeType = PdfType \/ file.mimeType = GoogleDocType

\* GoogleDriveClient.list_files_in_folder on the contents of the folder
list_files_in_folder(folder) == SelectSeq(folder, InListQuery)

\* the files a handler does not skip or reject: the negation of
\* "'pdf' not in mime_type and 'document' not in mime_type", app.py:309, 364
Compatible(mime_type) == Contains(mime_type, "pdf") \/ Contains(mime_type, "document")

\* safe_name, app.py:305 and 313-315, app.py:374-378
SafeName(file_meta) ==
    LET safe_name == secure_filename(file_meta.name)
    IN  IF file_meta.mimeType = GoogleDocType /\ ~EndsWith(safe_name, ".docx")
        THEN safe_name \o ".docx"
        ELSE safe_name

\* VectorStoreManager.add_documents(chunks): one id for each chunk; the ids
\* here tell the file the chunks are of
add_documents(origin, n) == [i \in 1..n |-> origin \o "#" \o ToString(i)]

\* what a call into a collaborator may do
ProcessOutcomes == {"ok", "process", "index"}

\* no ingestion request is running
Resting ==
    [pc |-> "idle", temp |-> NoValue, file |-> NoValue, folder |-> <<>>,
     files |-> <<>>, i |-> 1, all_ids |-> <<>>, processed_count |-> 0,
     downloaded |-> {}, processed |-> {}, failed |-> {}]

NoReport ==
    [op |-> "none", status |-> 0, message |-> NoValue, chunks_created |-> 0,
     document_ids |-> <<>>, processed_count |-> 0, temp |-> NoValue,
     folder |-> <<>>, listed |-> <<>>, downloaded |-> {}, processed |-> {},
     failed |-> {}]

\* the running request ends with this response; locals is what the handler
\* held when it ended
Ends(op, status, message, chunks_created, document_ids, locals) ==
    /\ report' = [NoReport EXCEPT !.op = op, !.status = status, !.message = message,
                                  !.chunks_created = chunks_created,
                                  !.document_ids = document_ids,
                                  !.processed_count = locals.processed_count,
                                  !.temp = locals.temp, !.folder = locals.folder,
                                  !.listed = locals.files,
                                  !.downloaded = locals.downloaded,
                                  !.processed = locals.processed,
                                  !.failed = locals.failed]
    /\ ing' = Resting

\* POST /ingest/file up to the copy of the upload, app.py:172-191
UploadSave ==
    /\ ing.pc = "idle"
    /\ \E filename \in UploadNames :
         IF filename = ""
         THEN /\ Ends("ingest_file", 400, "No file selected", 0, <<>>,
                      Resting)
              /\ fs' = fs
         ELSE IF ~allowed_file(filename)
         THEN /\ Ends("ingest_file", 400, "File type not allowed", 0, <<>>,
                      Resting)
              /\ fs' = fs
         ELSE LET file_path == join(UPLOAD_FOLDER, secure_filename(filename))
              IN  \/ /\ fs' = fs \cup {file_path}
                     /\ ing' = [Resting EXCEPT !.pc = "uploaded", !.temp = file_path,
                                               !.file = secure_filename(filename)]
                     /\ report' = NoReport
                  \/ \* the copy fails: app.py:213-216
                     /\ fs' = remove(fs, file_path)
                     /\ Ends("ingest_file", 500, "copy failed", 0, <<>>,
                             [Resting EXCEPT !.temp = file_path, !.failed = {<<filename, "save">>}])
    /\ UNCHANGED <<chatVars, splitVars, chainVars>>

\* POST /ingest/file from process_file to the response, app.py:193-216
UploadProcess ==
    /\ ing.pc = "uploaded"
    /\ fs' = remove(fs, ing.temp)
    /\ \E outcome \in ProcessOutcomes, n \in 1..MaxChunks :
         IF outcome = "ok"
         THEN /\ Ends("ingest_file", 200, "File ingested successfully", n,
                          Slice(add_documents(ing.file, n), UploadIdsShown),
                      [ing EXCEPT !.pc = "idle", !.processed = {ing.file}])
         ELSE /\ Ends("ingest_file", 500, outcome, 0, <<>>,
                      [ing EXCEPT !.pc = "idle", !.failed = {<<ing.file, outcome>>}])
    /\ UNCHANGED <<chatVars, splitVars, chainVars>>

\* POST /ingest/google-drive up to the loop, app.py:282-300
DriveStart ==
    /\ ing.pc = "idle"
    /\ \E folder \in Folders :
         LET folder_id == extract_id_from_url(FolderId)
             files == list_files_in_folder(folder)
             temp_dir == join(UPLOAD_FOLDER, "drive_" \o folder_id)
         IN  \/ \* the listing fails: app.py:341-342
                /\ Ends("ingest_drive", 500, "listing failed", 0, <<>>,
                        [Resting EXCEPT !.folder = folder])
                /\ fs' = fs
             \/ /\ files = <<>>
                /\ Ends("ingest_drive", 200,
                            "No compatible files found in drive folder", 0, <<>>,
                        [Resting EXCEPT !.folder = folder])
                /\ fs' = fs
             \/ /\ files # <<>>
                /\ fs' = fs \cup {temp_dir}
                /\ ing' = [Resting EXCEPT !.pc = "drive_loop", !.temp = temp_dir,
                                          !.folder = folder, !.files = files]
                /\ report' = NoReport
    /\ UNCHANGED <<chatVars, splitVars, chainVars>>

\* one pass of the loop over the files, app.py:302-329, with
\* GoogleDriveClient.download_file, drive_client.py:171-205
DriveFile ==
    /\ ing.pc = "drive_loop"
    /\ ing.i <= Len(ing.files)
    /\ LET file_meta == ing.files[ing.i]
           dest_path == join(ing.temp, SafeName(file_meta))
       IN  IF ~Compatible(file_meta.mimeType)
           THEN /\ ing' = [ing EXCEPT !.i = @ + 1]
                /\ UNCHANGED <<fs, report>>
           ELSE \/ \* the download raises: download_file removes what it wrote
                   \* and raises again; the handler leaves through
                   \* app.py:341-342
                   /\ fs' = remove(fs, dest_path)
                   /\ Ends("ingest_drive", 500, "download failed", 0, <<>>,
                           [ing EXCEPT !.pc = "idle", !.failed = @ \cup {<<file_meta.id, "download">>}])
                \/ \E outcome \in ProcessOutcomes, n \in 1..MaxChunks :
                      /\ fs' = fs \cup {dest_path}
                      /\ report' = report
                      /\ IF outcome = "ok"
                         THEN ing' = [ing EXCEPT
                                 !.i = @ + 1,
                                 !.downloaded = @ \cup {file_meta.id},
                                 !.processed = @ \cup {file_meta.id},
                                 !.all_ids = @ \o add_documents(file_meta.id, n),
                                 !.processed_count = @ + 1]
                         ELSE ing' = [ing EXCEPT
                                 !.i = @ + 1,
                                 !.downloaded = @ \cup {file_meta.id},
                                 !.failed = @ \cup {<<file_meta.id, outcome>>}]
    /\ UNCHANGED <<chatVars, splitVars, chainVars>>

\* after the loop, app.py:331-339
DriveFinish ==
    /\ ing.pc = "drive_loop"
    /\ ing.i > Len(ing.files)
    /\ fs' = rmtree(fs, ing.temp)
    /\ Ends("ingest_drive", 200,
                "Successfully ingested " \o ToString(ing.processed_count)
                    \o " files from Google Drive",
                Len(ing.all_ids), Slice(ing.all_ids, DriveIdsShown),
            [ing EXCEPT !.pc = "idle"])
    /\ UNCHANGED <<chatVars, splitVars, chainVars>>

\* POST /ingest/google-drive/file up to the download, app.py:354-380
DriveFileStart ==
    /\ ing.pc = "idle"
    /\ \E file_meta \in DriveFiles :
         LET file_id == extract_id_from_url(file_meta.id)
             temp_dir == join(UPLOAD_FOLDER, "drive_file_" \o file_id)
         IN  \/ \* get_file_metadata raises: app.py:405-408
                /\ Ends("ingest_drive_file", 500, "metadata failed", 0, <<>>,
                        [Resting EXCEPT !.folder = <<file_meta>>])
                /\ fs' = fs
             \/ /\ ~Compatible(file_meta.mimeType)
                /\ Ends("ingest_drive_file", 400, "Unsupported file type", 0, <<>>,
                        [Resting EXCEPT !.folder = <<file_meta>>])
                /\ fs' = fs
             \/ /\ Compatible(file_meta.mimeType)
                /\ fs' = fs \cup {temp_dir}
                /\ ing' = [Resting EXCEPT !.pc = "drive_file", !.temp = temp_dir,
                                          !.file = SafeName(file_meta),
                                          !.folder = <<file_meta>>,
                                          !.files = <<file_meta>>]
                /\ report' = NoReport
    /\ UNCHANGED <<chatVars, splitVars, chainVars>>

\* POST /ingest/google-drive/file from the download on, app.py:382-408
DriveFileFetch ==
    /\ ing.pc = "drive_file"
    /\ LET file_meta == ing.files[1]
           dest_path == join(ing.temp, ing.file)
       IN  \/ \* the download raises: the handler leaves through app.py:405-408
              /\ fs' = remove(fs, dest_path)
              /\ Ends("ingest_drive_file", 500, "download failed", 0, <<>>,
                      [ing EXCEPT !.pc = "idle", !.failed = {<<file_meta.id, "download">>}])
           \/ \E outcome \in ProcessOutcomes, n \in 1..MaxChunks :
                 /\ fs' = rmtree(fs \cup {dest_path}, ing.temp)
                 /\ IF outcome = "ok"
                    THEN /\ Ends("ingest_drive_file", 200,
                                     "Successfully ingested file from Google Drive: "
                                         \o file_meta.name,
                                     n, Slice(add_documents(file_meta.id, n),
                                              DriveFileIdsShown),
                                 [ing EXCEPT !.pc = "idle", !.downloaded = {file_meta.id}, !.processed = {file_meta.id}, !.processed_count = 1])
                    ELSE /\ Ends("ingest_drive_file", 500, outcome, 0, <<>>,
                                 [ing EXCEPT !.pc = "idle", !.downloaded = {file_meta.id}, !.failed = {<<file_meta.id, outcome>>}])
    /\ UNCHANGED <<chatVars, splitVars, chainVars>>

\* POST /ingest/directory, app.py:243-270, with load_directory,
\* document_processor.py:90-107: the loader of one extension after the other;
\* a loader that raises is skipped.  A loaded extension here gives one
\* document, and a document one chunk.
IngestDirectory ==
    /\ ing.pc = "idle"
    /\ fs' = fs
    /\ \/ /\ Ends("ingest_directory", 404, "Directory not found", 0, <<>>,
                  Resting)
       \/ \E loaded \in SUBSET Range(LOADER_MAPPING), outcome \in ProcessOutcomes :
             LET raised == {<<ext, "load">> : ext \in Range(LOADER_MAPPING) \ loaded}
                 Loaded(ext) == ext \in loaded
                 documents == SelectSeq(LOADER_MAPPING, Loaded)
                 ids == [i \in 1..Len(documents) |-> add_documents(documents[i], 1)[1]]
             IN  IF outcome = "ok"
                 THEN Ends("ingest_directory", 200, "Directory ingested successfully",
                           Len(documents), Slice(ids, DirectoryIdsShown),
                           [Resting EXCEPT !.processed = loaded, !.failed = raised,
                                           !.processed_count = Len(documents)])
                 ELSE Ends("ingest_directory", 500, outcome, 0, <<>>,
                           [Resting EXCEPT
                               !.failed = raised \cup {<<"directory", outcome>>}])
    /\ UNCHANGED <<chatVars, splitVars, chainVars>>

\* ------------------------------------------------------------- RAGChain
\* The vector store is shared: other writers add and delete chunks at any
\* time.  Its chunks are kept here in the order of their relevance to the
\* question asked, the most relevant first.

\* chunks in the vector store
MaxStore == 2
\* update_retriever is called with k in 1..MaxK
MaxK == 2

\* retriever_kwargs or {"k": 4}, chain.py:67
DefaultK == 4
\* doc.page_content[:200], chain.py:131
ExcerptLength == 200

RECURSIVE Repeat(_, _)
Repeat(c, n) ==
    IF n = 0 THEN ""
    ELSE IF n % 2 = 0 THEN LET half == Repeat(c, n \div 2) IN half \o half
    ELSE c \o Repeat(c, n - 1)

\* lengths of the chunk texts
TextLengths == {1, ExcerptLength, ExcerptLength + 1}

\* the chunks that may be stored, as split_documents makes them
StoredChunks ==
    {Identified([metadata |-> [source |-> SourceA, page |-> 1],
                 page_content |-> Repeat("a", n)], n) : n \in TextLengths}

\* VectorStoreManager.as_retriever(search_kwargs): a retriever is told by
\* the search_kwargs it was made with
as_retriever(search_kwargs) == [search_kwargs |-> search_kwargs]

\* retriever.invoke(question): the search_kwargs["k"] most relevant chunks
\* of the vector store, in rank order
invoke(retriever, vector_store) == Slice(vector_store, retriever.search_kwargs.k)

\* RAGChain._build_chain, chain.py:79-98: the chain is composed with the
\* retriever that self.retriever is at that moment
_build_chain(retriever) == [retriever |-> retriever]

\* RAGChain.__init__, chain.py:66-73
NewRAGChain ==
    [retriever |-> as_retriever([k |-> DefaultK]),
     _chain |-> _build_chain(as_retriever([k |-> DefaultK]))]

\* mutant of update_retriever: the chain is not built again
update_retriever_noRebuild(self, search_kwargs) ==
    [self EXCEPT !.retriever = as_retriever(search_kwargs)]

\* RAGChain.update_retriever, chain.py:154-164: the object afterwards
update_retriever(self, search_kwargs) ==
    [self EXCEPT !.retriever = as_retriever(search_kwargs),
                 !._chain = _build_chain(as_retriever(search_kwargs))]

\* RAGChain._format_docs, chain.py:75-77: "\n\n".join(...)
RECURSIVE _format_docs(_)
_format_docs(docs) ==
    IF docs = <<>> THEN ""
    ELSE IF Len(docs) = 1 THEN docs[1].page_content
    ELSE docs[1].page_content \o "\n\n" \o _format_docs(Tail(docs))

\* mutant of SourceOfDoc: a text of exactly 200 characters is cut too
SourceOfDoc_cutAtLength(doc) ==
    [content |-> IF Len(doc.page_content) >= ExcerptLength
                 THEN SubSeq(doc.page_content, 1, ExcerptLength) \o "..."
                 ELSE doc.page_content,
     metadata |-> doc.metadata]

\* one entry of sources, chain.py:130-133
SourceOfDoc(doc) ==
    [content |-> IF Len(doc.page_content) > ExcerptLength
                 THEN SubSeq(doc.page_content, 1, ExcerptLength) \o "..."
                 ELSE doc.page_content,
     metadata |-> doc.metadata]

\* no retriever: none was used
NoRetriever == as_retriever([k |-> 0])

\* no query_with_sources call is running
NoRag == [pc |-> "idle", docs |-> <<>>, ranked |-> <<>>, retriever |-> NoRetriever]

\* no RAG call has just returned
NoAnswer ==
    [method |-> "none", docs |-> <<>>, ranked |-> <<>>, docs_retriever |-> NoRetriever,
     context_docs |-> <<>>, context_ranked |-> <<>>, context_retriever |-> NoRetriever,
     context |-> "", sources |-> <<>>, answer |-> NoValue, raised |-> FALSE]

\* self._chain.invoke(question): retrieval, prompt and model, chain.py:88-96;
\* what the call used and what the model answered, or that it raised
ChainInvoke(base) ==
    LET context_docs == invoke(rag_chain._chain.retriever, store)
        used == [base EXCEPT !.context_docs = context_docs,
                             !.context_ranked = store,
                             !.context_retriever = rag_chain._chain.retriever,
                             !.context = _format_docs(context_docs)]
    IN  {[used EXCEPT !.answer = a] : a \in Answers}
            \cup {[used EXCEPT !.raised = TRUE]}

\* a chunk is added by some writer and takes its rank among the others
StoreWrite ==
    /\ Len(store) < MaxStore
    /\ \E c \in StoredChunks, at \in 1..(Len(store) + 1) :
          store' = SubSeq(store, 1, at - 1) \o <<c>> \o SubSeq(store, at, Len(store))
    /\ answered' = NoAnswer
    /\ UNCHANGED <<rag_chain, rag>>
    /\ UNCHANGED <<chatVars, splitVars, ingestVars>>

\* a chunk is deleted by some writer
StoreDelete ==
    /\ \E at \in 1..Len(store) :
          store' = SubSeq(store, 1, at - 1) \o SubSeq(store, at + 1, Len(store))
    /\ answered' = NoAnswer
    /\ UNCHANGED <<rag_chain, rag>>
    /\ UNCHANGED <<chatVars, splitVars, ingestVars>>

\* rag_chain.update_retriever(search_kwargs) between two calls
UpdateRetriever ==
    /\ rag.pc = "idle"
    /\ \E k \in 1..MaxK : rag_chain' = update_retriever(rag_chain, [k |-> k])
    /\ answered' = NoAnswer
    /\ UNCHANGED <<store, rag>>
    /\ UNCHANGED <<chatVars, splitVars, ingestVars>>

\* RAGChain.query, chain.py:100-110, and RAGChain.aquery, chain.py:142-152
Query ==
    /\ rag.pc = "idle"
    /\ \E method \in {"query", "aquery"} :
          answered' \in ChainInvoke([NoAnswer EXCEPT !.method = method])
    /\ UNCHANGED <<store, rag_chain, rag>>
    /\ UNCHANGED <<chatVars, splitVars, ingestVars>>

\* RAGChain.query_with_sources: docs = self.retriever.invoke(question),
\* chain.py:123
SourcesRetrieve ==
    /\ rag.pc = "idle"
    /\ rag' = [pc |-> "retrieved", docs |-> invoke(rag_chain.retriever, store),
               ranked |-> store, retriever |-> rag_chain.retriever]
    /\ answered' = NoAnswer
    /\ UNCHANGED <<store, rag_chain>>
    /\ UNCHANGED <<chatVars, splitVars, ingestVars>>

\* RAGChain.query_with_sources from answer = self._chain.invoke(question)
\* to the return, chain.py:126-140
SourcesAnswer ==
    /\ rag.pc = "retrieved"
    /\ \E invoked \in ChainInvoke([NoAnswer EXCEPT !.method = "query_with_sources",
                                                   !.docs = rag.docs,
                                                   !.ranked = rag.ranked,
                                                   !.docs_retriever = rag.retriever]) :
          answered' = IF invoked.raised THEN invoked
                      ELSE [invoked EXCEPT !.sources =
                               [i \in 1..Len(rag.docs) |-> SourceOfDoc(rag.docs[i])]]
    /\ rag' = NoRag
    /\ UNCHANGED <<store, rag_chain>>
    /\ UNCHANGED <<chatVars, splitVars, ingestVars>>

\* ----------------------------------------------------- specifications

Init ==
    /\ now = 0
    /\ chats = EmptyBag
    /\ req = [r \in Req |-> Idle]
    /\ started = 0
    /\ admitted = EmptyBag
    /\ last = NoCall
    /\ chunks = <<>>
    /\ source_counters = NoCounters
    /\ idx = 1
    /\ split_pc = "idle"
    /\ calls = 0
    /\ earlier_sources = {}
    /\ earlier_hashes = {}
    /\ fs = {}
    /\ ing = Resting
    /\ report = NoReport
    /\ store = <<>>
    /\ rag_chain = NewRAGChain
    /\ rag = NoRag
    /\ answered = NoAnswer

\* the endpoints that write the history: /query and DELETE /chat/history
Next ==
    \/ \E r \in Req : QueryCheck(r)
    \/ \E r \in Req : QuerySaveUser(r)
    \/ \E r \in Req : QueryAnswer(r)
    \/ \E s \in Sessions : ClearHistory(s)
    \/ Tick

vars == <<chatVars, splitVars, ingestVars, chainVars>>

Spec == Init /\ [][Next]_vars

\* the same with GET /chat/history, which reads it
NextHistory ==
    \/ \E r \in Req : QueryCheck(r)
    \/ \E r \in Req : QuerySaveUser(r)
    \/ \E r \in Req : QueryAnswer(r)
    \/ \E s \in Sessions : ClearHistory(s)
    \/ \E s \in Sessions : GetHistory(s)
    \/ Tick

SpecHistory == Init /\ [][NextHistory]_vars

\* the endpoints that write the history, the requests of each session coming
\* one after another
NextSequential ==
    \/ \E r \in Req : QueryCheckSequential(r)
    \/ \E r \in Req : QuerySaveUser(r)
    \/ \E r \in Req : QueryAnswer(r)
    \/ \E s \in Sessions : ClearHistory(s)
    \/ Tick

SpecSequential == Init /\ [][NextSequential]_vars

\* the document processor
NextSplit ==
    \/ SplitCall
    \/ SplitLoop
    \/ SplitReturn
    \/ SplitDone

SpecSplit == Init /\ [][NextSplit]_vars

\* the ingestion endpoints
NextIngest ==
    \/ UploadSave
    \/ UploadProcess
    \/ DriveStart
    \/ DriveFile
    \/ DriveFinish
    \/ DriveFileStart
    \/ DriveFileFetch
    \/ IngestDirectory

SpecIngest == Init /\ [][NextIngest]_vars

\* the RAG chain over a vector store that other writers write to
NextChain ==
    \/ StoreWrite
    \/ StoreDelete
    \/ UpdateRetriever
    \/ Query
    \/ SourcesRetrieve
    \/ SourcesAnswer

SpecChain == Init /\ [][NextChain]_vars

\* -------------------------------------------------------------- claims

RagMethods == {"query", "query_with_sources"}

\* user messages of a session with lo <= timestamp <= hi, counted one by one
RECURSIVE Total(_, _)
Total(coll, docs) ==
    IF docs = {} THEN 0
    ELSE LET d == CHOOSE x \in docs : TRUE
         IN  coll[d] + Total(coll, docs \ {d})

UserMessagesIn(coll, session_id, lo, hi) ==
    Total(coll, {d \in DOMAIN coll : /\ d.session_id = session_id
                                     /\ d.role = "user"
                                     /\ lo <= d.timestamp
                                     /\ d.timestamp <= hi})

Window == DefaultWindowHours * TicksPerHour

\* handler r takes this step, and it is its rate-limit check
ChecksNow(r) == req[r].pc = "idle" /\ req'[r].pc = "checked"

\* C1 (as claimed): a /query request that the rate-limit check denies is
\* answered with status 200 and the fixed redirection text as its answer.
C1_DeniedAnswersRedirect ==
    (last.op = "query" /\ ~last.is_allowed)
        => (last.status = 200 /\ last.body = RedirectText)

\* C2: for every /query request the rate-limit check denies, the step after
\* the check appends exactly the user's message to the session's history,
\* and the request ends without rag_chain.query or query_with_sources run.
C2_DeniedRecordsUserSkipsRag ==
    [][\A r \in Req :
         (req[r].pc = "checked" /\ ~req[r].is_allowed /\ req'[r] # req[r])
            => /\ chats' = chats (+) SetToBag({Message(req[r].session_id, "user",
                                                       req[r].question, now)})
               /\ last'.op = "query"
               /\ "save_user" \in Range(last'.log)
               /\ Range(last'.log) \cap RagMethods = {}]_vars

C2_Witness ==
    /\ last.op = "query" /\ ~last.is_allowed
    /\ \E d \in DOMAIN chats : d.session_id = last.session_id /\ d.role = "user"
                               /\ d.timestamp = now
    /\ UserMessagesIn(chats, last.session_id, 0, now) > RateLimit

\* C3 (as claimed): every /query request that returns has gone through
\* check, user-message append, generation (only if allowed) and
\* assistant-message append, in this order, on the allowed and on the
\* denied path.
C3_ReturnedAppendedBoth ==
    (last.op = "query" /\ last.returned # "raise")
        => \/ /\ last.is_allowed
              /\ \E m \in RagMethods :
                    last.log = <<"check", "save_user", m, "save_assistant", "return">>
           \/ /\ ~last.is_allowed
              /\ last.log = <<"check", "save_user", "save_assistant", "return">>

\* C4: check_rate_limit returns true exactly when fewer than limit user
\* messages of the session have a timestamp in [now - window, now]; the
\* result is the same with the assistant messages, the other sessions'
\* messages and the older messages removed; the call changes no message.
C4_CheckCountsWindow ==
    [][\A r \in Req :
         ChecksNow(r) =>
            LET s == req'[r].session_id
                counted == Matching(chats, {d \in BagToSet(chats) :
                               /\ d.session_id = s /\ d.role = "user"
                               /\ d.timestamp >= now - Window})
            IN  /\ req'[r].is_allowed
                      <=> (UserMessagesIn(chats, s, now - Window, now) < RateLimit)
                /\ req'[r].is_allowed
                      <=> check_rate_limit(counted, s, RateLimit, DefaultWindowHours, now)
                /\ chats' = chats]_vars

C4_Witness ==
    /\ last.op = "check_rate_limit" /\ last.is_allowed
    /\ UserMessagesIn(chats, last.session_id, 0, now - Window - 1) >= RateLimit
    /\ \E d \in DOMAIN chats : d.session_id = last.session_id /\ d.role = "assistant"
                               /\ d.timestamp >= now - Window
    /\ \E d \in DOMAIN chats : d.session_id # last.session_id /\ d.role = "user"
                               /\ d.timestamp >= now - Window

\* the timestamps of the stored questions of a session that were admitted
AdmittedTimes(session_id) == {a[2] : a \in {x \in DOMAIN admitted : x[1] = session_id}}

AdmittedIn(session_id, lo, hi) ==
    Total(admitted, {a \in DOMAIN admitted :
                        a[1] = session_id /\ lo <= a[2] /\ a[2] <= hi})

\* the session holds exactly limit admitted questions, the first of them
\* at time first, all of them within window_hours of the first
FilledWindow(session_id, first) ==
    /\ first \in AdmittedTimes(session_id)
    /\ \A t \in AdmittedTimes(session_id) : first <= t /\ t <= first + Window
    /\ AdmittedIn(session_id, 0, MaxTime) = RateLimit

\* C5 (as claimed): with exactly limit questions admitted in one window, a
\* further /query inside the window is denied, and a /query made just over
\* window_hours after the first of them is allowed again.
C5_AllowedAgainAfterWindow ==
    [][\A r \in Req : \A first \in 0..MaxTime :
         (ChecksNow(r) /\ FilledWindow(req'[r].session_id, first))
            => /\ now <= first + Window => ~req'[r].is_allowed
               /\ now = first + Window + 1 => req'[r].is_allowed]_vars

\* C5 (amended): with exactly limit questions admitted in one window, a
\* further /query inside the window is denied; a /query made just over
\* window_hours after the first of them is allowed exactly when fewer than
\* limit user messages of the session lie in the window then, the messages
\* recorded by the denied requests included; so it is allowed when no denied
\* request has recorded a message since the first one rolled out.
C5_AllowedAgainUnlessDeniedCounted ==
    [][\A r \in Req : \A first \in 0..MaxTime :
         (ChecksNow(r) /\ FilledWindow(req'[r].session_id, first))
            => LET s == req'[r].session_id
                   denied == UserMessagesIn(chats, s, now - Window, now)
                                - AdmittedIn(s, now - Window, now)
               IN  /\ now <= first + Window => ~req'[r].is_allowed
                   /\ now = first + Window + 1 =>
                         /\ req'[r].is_allowed
                               <=> (AdmittedIn(s, first + 1, now) + denied < RateLimit)
                         /\ denied = 0 => req'[r].is_allowed]_vars

\* a request is allowed again just over a window after the first question,
\* although a request was denied, and recorded, in between
C5_Witness ==
    /\ last.op = "check_rate_limit" /\ last.is_allowed
    /\ \E first \in 0..MaxTime :
          /\ FilledWindow(last.session_id, first)
          /\ now = first + Window + 1
          /\ UserMessagesIn(chats, last.session_id, 0, now) > RateLimit

\* C6: two /query requests of one session are not serialised: both may pass
\* the check before either question is stored, so more than limit questions
\* of one window are admitted; the excess is bounded only by the number of
\* handlers running at once (limit - 1 stored when the last check passed,
\* plus one question per handler between its check and its insert).
C6_OverQuotaOnlyByOverlap ==
    \A s \in Sessions : \A end \in 0..MaxTime :
       AdmittedIn(s, end - Window, end) <= RateLimit - 1 + Cardinality(Req)

\* more than limit admitted questions of one session in one window
C6_Witness ==
    \E s \in Sessions : \E end \in 0..MaxTime :
       AdmittedIn(s, end - Window, end) > RateLimit

\* the sessions this step operates on: the session of the handler that
\* moves, or the session whose history is cleared
StepSessions ==
    {s \in Sessions :
        \/ \E r \in Req : /\ req'[r] # req[r]
                          /\ s = IF req[r].pc = "idle" THEN req'[r].session_id
                                                       ELSE req[r].session_id
        \/ last'.op = "clear_history" /\ last'.session_id = s}

\* C7: a step of a /query handler (its check, its inserts) or a
\* clear_history on session A leaves every other session B's stored
\* messages, the result of get_history(B) and the result of
\* check_rate_limit(B) as they were.
C7_OtherSessionsUntouched ==
    [][\A a \in StepSessions : \A b \in Sessions \ {a} :
          /\ OfSession(chats', b) = OfSession(chats, b)
          /\ {get_history(c) : c \in HistoryCursors(chats', b, HistoryLimit)}
                = {get_history(c) : c \in HistoryCursors(chats, b, HistoryLimit)}
          /\ check_rate_limit(chats', b, RateLimit, DefaultWindowHours, now')
                = check_rate_limit(chats, b, RateLimit, DefaultWindowHours, now)]_vars

\* a session's history has just been cleared while another session holds
\* messages and is at its limit
C7_Witness ==
    /\ last.op = "clear_history" /\ last.deleted > 0
    /\ \E b \in Sessions \ {last.session_id} :
          /\ OfSession(chats, b) # EmptyBag
          /\ ~check_rate_limit(chats, b, RateLimit, DefaultWindowHours, now)

\* C8: get_history returns only messages of the session asked for, oldest
\* first (timestamps never decrease), at most limit of them, each with the
\* role, content and timestamp of its message; when the session holds more
\* than limit messages they are limit messages none of which is newer than
\* a message left out.
C8_HistoryOldestFirstBounded ==
    last.op = "get_history" =>
       LET c == last.cursor
           mine == OfSession(chats, last.session_id)
           taken == [d \in {c[i] : i \in 1..Len(c)} |->
                        Cardinality({i \in 1..Len(c) : c[i] = d})]
       IN  /\ \A i \in 1..Len(c) : c[i].session_id = last.session_id
           /\ \A i \in 1..Len(c) : \A j \in i..Len(c) : c[i].timestamp <= c[j].timestamp
           /\ Len(c) <= HistoryLimit
           /\ Len(last.result) = Len(c)
           /\ \A i \in 1..Len(c) :
                 /\ last.result[i].role = c[i].role
                 /\ last.result[i].content = c[i].content
                 /\ last.result[i].timestamp = isoformat(c[i].timestamp)
           /\ \A d \in DOMAIN taken : d \in DOMAIN mine /\ taken[d] <= mine[d]
           /\ Len(c) = Min(HistoryLimit, BagCardinality(mine))
           /\ \A d \in DOMAIN mine :
                 (d \notin DOMAIN taken \/ taken[d] < mine[d])
                    => \A i \in 1..Len(c) : c[i].timestamp <= d.timestamp

\* a history of more than limit messages, of different times, was cut
C8_Witness ==
    /\ last.op = "get_history"
    /\ Len(last.cursor) = HistoryLimit
    /\ BagCardinality(OfSession(chats, last.session_id)) > HistoryLimit
    /\ last.cursor[1].timestamp < last.cursor[HistoryLimit].timestamp
    /\ \E d \in DOMAIN chats : /\ d.session_id = last.session_id
                               /\ d.timestamp > last.cursor[HistoryLimit].timestamp

\* C9: clear_history(session_id) succeeds, leaves no message of the session
\* and get_history of it empty, also when the session had no message; a
\* second clear_history changes nothing.
C9_ClearEmptiesIdempotent ==
    last.op = "clear_history" =>
       /\ last.status = 200
       /\ \A d \in DOMAIN chats : d.session_id # last.session_id
       /\ {get_history(c) : c \in HistoryCursors(chats, last.session_id, HistoryLimit)}
             = {<<>>}
       /\ clear_history(chats, last.session_id) = chats

\* clear_history of a session without messages, other messages being stored
C9_Witness ==
    /\ last.op = "clear_history"
    /\ last.deleted = 0
    /\ chats # EmptyBag

\* the chunks of positions 1..i that have the source of chunk i
SameSourceUpTo(i) == {j \in 1..i : SourceOf(chunks[j]) = SourceOf(chunks[i])}

\* positions the loop of the running call has passed
Numbered == 1..(idx - 1)

\* C10: within one split_documents call, the k-th chunk emitted for a source
\* (a missing source counting as "unknown") gets the id
\* "<basename>:<page>:k": the sequence numbers of a source run 1, 2, 3, ...
\* in emission order without gap or repeat, however the chunks of other
\* sources and pages are interleaved with them.
C10_SequencePerSource ==
    \A i \in Numbered :
       /\ "id" \in DOMAIN chunks[i].metadata
       /\ chunks[i].metadata["id"]
             = ChunkId(basename(SourceOf(chunks[i])), PageOf(chunks[i]),
                       Cardinality(SameSourceUpTo(i)))

\* a call has returned chunks of a source, then of another source with the
\* same file name, then of the first source again on another page
C10_Witness ==
    /\ split_pc = "returned"
    /\ \E i, j, k \in Numbered :
          /\ i < j /\ j < k
          /\ SourceOf(chunks[i]) = SourceA /\ SourceOf(chunks[j]) = SourceB
          /\ SourceOf(chunks[k]) = SourceA
          /\ PageOf(chunks[i]) # PageOf(chunks[k])
          /\ chunks[k].metadata["id"] = "f.pdf:1:2"

\* the chunk as the text splitter made it, before the loop gave it id and hash
Plain(chunk) ==
    [chunk EXCEPT !.metadata = [k \in DOMAIN chunk.metadata \ {"id", "hash"} |->
                                   chunk.metadata[k]]]

\* the chunks of positions 1..idx-1 that have the source given
NumberedOf(source) == {j \in Numbered : SourceOf(chunks[j]) = source}

\* C11: the per-source counters belong to one split_documents call: whatever
\* calls came before on the same DocumentProcessor, the counters of the
\* running call hold exactly the sources of its own chunks with the number
\* of its own chunks counted so far, the first chunk of every source gets
\* sequence number 1, and the chunks returned are a function of the chunks
\* split alone, so that the same documents get the same ids and hashes in
\* every call.
C11_CountersPerCall ==
    /\ split_pc # "idle" =>
          /\ DOMAIN source_counters = {SourceOf(chunks[j]) : j \in Numbered}
          /\ \A k \in DOMAIN source_counters :
                source_counters[k] = Cardinality(NumberedOf(k))
    /\ \A i \in Numbered :
          (\A j \in 1..(i - 1) : SourceOf(chunks[j]) # SourceOf(chunks[i]))
             => chunks[i].metadata["id"]
                   = ChunkId(basename(SourceOf(chunks[i])), PageOf(chunks[i]), 1)
    /\ split_pc = "returned" =>
          chunks = IdentifyFrom([i \in 1..Len(chunks) |-> Plain(chunks[i])], NoCounters)

\* a later call has returned two chunks of a source that an earlier call
\* numbered, the first of them with sequence number 1
C11_Witness ==
    /\ split_pc = "returned"
    /\ calls >= 2
    /\ \E i, j \in Numbered :
          /\ i < j
          /\ SourceOf(chunks[i]) = SourceA /\ SourceOf(chunks[j]) = SourceA
          /\ SourceA \in earlier_sources
          /\ chunks[i].metadata["id"] = ChunkId("f.pdf", PageOf(chunks[i]), 1)
          /\ chunks[j].metadata["id"] = ChunkId("f.pdf", PageOf(chunks[j]), 2)

\* C12: the hash of a chunk is a function of its text only: two chunks of
\* equal text have equal hashes, whatever their source, page and sequence
\* number, within one call and across calls.
C12_HashOfTextOnly ==
    /\ \A i, j \in Numbered :
          chunks[i].page_content = chunks[j].page_content
             => chunks[i].metadata["hash"] = chunks[j].metadata["hash"]
    /\ \A i \in Numbered : \A e \in earlier_hashes :
          chunks[i].page_content = e[1] => chunks[i].metadata["hash"] = e[2]

\* two chunks of equal text but of different source, page and sequence
\* number were returned, and an earlier call returned a chunk of that text
C12_Witness ==
    /\ split_pc = "returned"
    /\ \E i, j \in Numbered :
          /\ chunks[i].page_content = chunks[j].page_content
          /\ SourceOf(chunks[i]) # SourceOf(chunks[j])
          /\ PageOf(chunks[i]) # PageOf(chunks[j])
          /\ chunks[i].metadata["id"] # chunks[j].metadata["id"]
          /\ \E e \in earlier_hashes : e[1] = chunks[i].page_content

\* C19 (as claimed): within one split_documents call no two chunks get the
\* same id.
C19_IdsUniqueInCall ==
    \A i, j \in Numbered :
       i # j => chunks[i].metadata["id"] # chunks[j].metadata["id"]

\* what exists of a temporary file or directory: the path and what lies in it
Leftovers(temp) == {p \in fs : p = temp \/ StartsWith(p, temp \o "/")}

\* C13 (as claimed): when a file-upload, Drive-folder or Drive-single-file
\* request has returned, on whatever path, the temporary file or directory
\* it created does not exist any more.
C13_TempArtifactsRemoved ==
    (report.op \in {"ingest_file", "ingest_drive", "ingest_drive_file"}
        /\ report.temp # NoValue)
       => Leftovers(report.temp) = {}

\* the ids of document_ids that are of the file or extension given
IdsOf(origin) == {id \in Range(report.document_ids) : StartsWith(id, origin \o "#")}

\* C14 (as claimed): a Drive-folder request whose listing gave files returns
\* a success report whatever failed on single files: the files processed
\* are the listed files on which nothing failed, processed_count counts
\* them and the ids are theirs; a directory request in which only loaders
\* of single extensions failed returns a success report of the others.
C14_BatchSkipsFailedFile ==
    /\ (report.op = "ingest_drive" /\ report.listed # <<>>) =>
          /\ report.status = 200
          /\ report.processed
                = {f.id : f \in Range(report.listed)} \ {x[1] : x \in report.failed}
          /\ report.processed_count = Cardinality(report.processed)
          /\ \A id \in Range(report.document_ids) :
                \E f \in report.processed : id \in IdsOf(f)
    /\ (report.op = "ingest_directory" /\ report.status # 404
           /\ \A x \in report.failed : x[2] = "load") =>
          /\ report.status = 200
          /\ report.processed = Range(LOADER_MAPPING) \ {x[1] : x \in report.failed}
          /\ report.chunks_created = Cardinality(report.processed)

\* the MIME types the claim has ingested: PDF, Word and Google Doc
ClaimedEligible(mime_type) == mime_type \in {PdfType, WordType, GoogleDocType}

\* C15 (as claimed): in a Drive-folder request that returned a report, a
\* file of the folder was downloaded exactly when its MIME type is PDF,
\* Word or Google Doc; a file of another type gave no id.
C15_FolderFilterByMimeType ==
    (report.op = "ingest_drive" /\ report.status = 200) =>
       \A f \in Range(report.folder) :
          /\ (f.id \in report.downloaded) <=> ClaimedEligible(f.mimeType)
          /\ ~ClaimedEligible(f.mimeType) => IdsOf(f.id) = {}

\* C16: every entry of the sources query_with_sources returns is made of
\* the retrieved chunk at the same place of the retrieval: its content is the chunk's text
\* when the text has at most 200 characters, and otherwise the first 200
\* characters followed by "..."; its metadata is the chunk's metadata.
C16_SourceExcerpts ==
    (answered.method = "query_with_sources" /\ ~answered.raised) =>
       /\ Len(answered.sources) = Len(answered.docs)
       /\ \A i \in 1..Len(answered.docs) :
             LET text == answered.docs[i].page_content
                 content == answered.sources[i].content
             IN  /\ Len(text) <= ExcerptLength => content = text
                 /\ Len(text) > ExcerptLength =>
                       /\ Len(content) = ExcerptLength + 3
                       /\ SubSeq(content, 1, ExcerptLength) = SubSeq(text, 1, ExcerptLength)
                       /\ SubSeq(content, ExcerptLength + 1, ExcerptLength + 3) = "..."
                 /\ answered.sources[i].metadata = answered.docs[i].metadata

\* sources were returned for a text of exactly 200 characters, not cut, and
\* for a longer text after it, cut
C16_Witness ==
    /\ answered.method = "query_with_sources" /\ ~answered.raised
    /\ \E i, j \in 1..Len(answered.sources) :
          /\ i < j
          /\ Len(answered.docs[i].page_content) = ExcerptLength
          /\ answered.sources[i].content = answered.docs[i].page_content
          /\ Len(answered.docs[j].page_content) = ExcerptLength + 1
          /\ Len(answered.sources[j].content) = ExcerptLength + 3

\* C17: the chain is always composed with the retriever that self.retriever
\* is, so after update_retriever(search_kwargs) every query, aquery and
\* query_with_sources call takes its context, and query_with_sources its
\* sources, from the retriever made with the new search_kwargs.
C17_CallsUseNewRetriever ==
    /\ rag_chain._chain.retriever = rag_chain.retriever
    /\ answered.method # "none" => answered.context_retriever = rag_chain.retriever
    /\ answered.method = "query_with_sources" => answered.docs_retriever = rag_chain.retriever

\* after an update to k = 1, a query_with_sources call on a store of more
\* chunks took one chunk as context and returned one source
C17_Witness ==
    /\ answered.method = "query_with_sources" /\ ~answered.raised
    /\ rag_chain.retriever = as_retriever([k |-> 1])
    /\ Len(answered.ranked) >= 2 /\ Len(answered.context_ranked) >= 2
    /\ Len(answered.context_docs) = 1
    /\ Len(answered.sources) = 1

\* C20 (as claimed): the sources query_with_sources returns are made of
\* exactly the chunks, in the same order, whose text is the context the
\* answer was generated from, also when the store is written meanwhile.
C20_SourcesAreTheContext ==
    (answered.method = "query_with_sources" /\ ~answered.raised) =>
       /\ answered.docs = answered.context_docs
       /\ answered.context = _format_docs(answered.docs)

\* C18 (as claimed): with the requests of a session handled one after
\* another, once limit questions of the session are admitted in the window
\* that ends now, no step taken at that time makes the check allow the
\* session again: no further request of it can be admitted in that window.
C18_NeverOverLimitInWindow ==
    [][\A s \in Sessions :
         (AdmittedIn(s, now - Window, now) >= RateLimit /\ now' = now)
            => ~check_rate_limit(chats', s, RateLimit, DefaultWindowHours, now')]_vars

\* C18 (amended): with the requests of a session handled one after another,
\* the questions of the session admitted since its history was last cleared
\* number at most limit in every interval of window_hours.
C18_NeverOverLimitSinceClear ==
    \A s \in Sessions : \A end \in 0..MaxTime :
       AdmittedIn(s, end - Window, end) <= RateLimit

\* limit questions of a session were admitted, and a later request of the
\* session, alone in its session, has just been denied inside their window
C18_Witness ==
    /\ last.op = "check_rate_limit" /\ ~last.is_allowed
    /\ AdmittedIn(last.session_id, now - Window, now) = RateLimit
    /\ \A r \in Req : (req[r].pc # "idle" /\ req[r].session_id = last.session_id)
                          => req[r].pc = "checked"
    /\ Cardinality({r \in Req : req[r].pc # "idle"
                                    /\ req[r].session_id = last.session_id}) = 1

\* handler r takes this step, and in it the chain raises
FailsNow(r) == req[r].pc = "saved" /\ req'[r].pc = "idle" /\ last'.returned = "raise"

\* C21: when rag_chain.query or query_with_sources raises in an allowed
\* /query request, the request is answered with status 500 after one call
\* of the chain, the step changes no message (no assistant message is
\* appended, the stored question is not taken back), every question
\* admitted since the session's history was last cleared is still stored,
\* and a check made then counts it: with limit of them in the window the
\* check denies.
C21_FailurePropagatesQuestionStays ==
    [][\A r \in Req :
         FailsNow(r) =>
            LET s == req[r].session_id
            IN  /\ req[r].is_allowed
                /\ last'.op = "query" /\ last'.status = 500
                /\ Cardinality({i \in DOMAIN last'.log : last'.log[i] \in RagMethods}) = 1
                /\ "save_assistant" \notin Range(last'.log)
                /\ chats' = chats
                /\ \A t \in 0..MaxTime :
                      UserMessagesIn(chats', s, t, t) >= AdmittedIn(s, t, t)
                /\ AdmittedIn(s, now - Window, now) >= RateLimit
                      => ~check_rate_limit(chats', s, RateLimit, DefaultWindowHours, now')]_vars

\* the chain has just raised in the only request of a session: the request
\* is answered 500, the session holds its question and no assistant
\* message, and a check made now denies the session
C21_Witness ==
    /\ last.op = "query" /\ last.returned = "raise" /\ last.status = 500
    /\ UserMessagesIn(chats, last.session_id, 0, MaxTime) = RateLimit
    /\ AdmittedIn(last.session_id, now - Window, now) = RateLimit
    /\ ~\E d \in DOMAIN chats : d.session_id = last.session_id /\ d.role = "assistant"
    /\ \A r \in Req : req[r].pc # "idle" => req[r].session_id # last.session_id
    /\ ~check_rate_limit(chats, last.session_id, RateLimit, DefaultWindowHours, now)

\* C22: right after clear_history(session_id) no user message of the
\* session is stored and check_rate_limit(session_id) is true, whatever the
\* session had recorded in the window before; a /query of the session whose
\* check is the next step after the clear is allowed.
C22_ClearResetsQuota ==
    [][/\ \A s \in Sessions :
            (last'.op = "clear_history" /\ last'.session_id = s)
               => /\ UserMessagesIn(chats', s, 0, MaxTime) = 0
                  /\ check_rate_limit(chats', s, RateLimit, DefaultWindowHours, now')
       /\ \A r \in Req :
            (ChecksNow(r) /\ last.op = "clear_history"
                          /\ last.session_id = req'[r].session_id)
               => req'[r].is_allowed]_vars

\* limit requests of a session were admitted and answered and a further one
\* was denied, all within the window; the history of the session has just
\* been cleared, limit questions and limit answers deleted, and the check
\* is true again
C22_Witness ==
    /\ last.op = "clear_history" /\ last.status = 200
    /\ now <= Window
    /\ started = RateLimit + 1
    /\ last.deleted = 2 * RateLimit
    /\ \E r \in Req : /\ req[r].pc = "checked" /\ ~req[r].is_allowed
                      /\ req[r].session_id = last.session_id
    /\ check_rate_limit(chats, last.session_id, RateLimit, DefaultWindowHours, now)

====
